---- MODULE Spec2Model ----
(***************************************************************************)
(* The chat panel of BiliNote's frontend (ChatContainer, the version with  *)
(* history loading and message deletion, src/unnamed/part_000) together    *)
(* with the chat API client it calls (services/chat.ts).                   *)
(*                                                                         *)
(* One action per handler or promise continuation.  A remote call is a     *)
(* request in flight; the environment settles it with a transport outcome, *)
(* the chatService wrapper turns the outcome into a return value or a      *)
(* throw, and the awaiting continuation of the component runs to its next  *)
(* await or to its end, all in one step (a promise continuation is not     *)
(* interleaved with other handlers).                                       *)
(*                                                                         *)
(* Text is a sequence of characters, so that trim() is computed.  Indexes  *)
(* passed to handlers are JavaScript's (0-based); sequences are 1-based.   *)
(***************************************************************************)
EXTENDS Integers, Sequences, FiniteSets, TLC

\* ------------------------------------------------------------------ bounds

\* Accepted submits (sendMessage calls issued) in one run of the panel.
MaxSends == 2

\* Changes of the taskId, noteContent, providerId or modelName props while
\* the older component is mounted.
MaxPropChanges == 1

\* ------------------------------------------------------------------ values

\* What the user can have in the input field.
Inputs == { <<>>, <<" ">>, <<" ", "a", " ">> }

\* Replies the backend can give to a message.
Responses == { <<"r">>, <<"a">> }

Msg(role, content) == [role |-> role, content |-> content]

\* ChatSession values the backend can return from POST /chat/sessions.
Sessions ==
    { [session_id |-> "s1", welcome_message |-> <<"w">>, status |-> st] :
        st \in {"new", "existing"} }

NoSession == [session_id |-> "", welcome_message |-> <<>>, status |-> "none"]

\* Histories the backend can return from GET /chat/sessions/{id}/history.
Histories ==
    { <<>>,
      << Msg("user", <<"a">>), Msg("assistant", <<"r">>) >>,
      << Msg("assistant", <<"w">>), Msg("user", <<"a">>) >> }

\* Transport outcomes of the three remote calls the panel makes.
CreateOutcomes ==
    { [ok |-> TRUE, body |-> s] : s \in Sessions }
        \cup { [ok |-> FALSE, body |-> NoSession] }

HistoryOutcomes ==
    { [ok |-> TRUE, hasHistory |-> TRUE, history |-> h] : h \in Histories }
        \cup { [ok |-> TRUE, hasHistory |-> FALSE, history |-> <<>>],
               [ok |-> FALSE, hasHistory |-> FALSE, history |-> <<>>] }

NoFetch == [ok |-> FALSE, hasHistory |-> FALSE, history |-> <<>>, issued |-> FALSE]

SendOutcomes ==
    { [ok |-> TRUE, response |-> r] : r \in Responses }
        \cup { [ok |-> FALSE, response |-> <<>>] }

\* Notifications (react-hot-toast).
ToastNone == "none"
ToastHistoryLoaded == "history loaded"       \* toast.success, bootstrap
ToastSessionCreated == "session created"     \* toast.success, bootstrap
ToastLoadFailed == "session load failed"     \* toast.error, bootstrap
ToastSendFailed == "send failed"             \* toast.error, send
ToastCannotDeleteWelcome == "cannot delete welcome"  \* toast.error, delete
ToastDeleted == "message deleted"            \* toast.success, delete

\* ------------------------------------------------------------ pure helpers

\* String.prototype.trim on a character sequence.
RECURSIVE TrimLeft(_)
TrimLeft(s) ==
    IF s # <<>> /\ Head(s) = " " THEN TrimLeft(Tail(s)) ELSE s

RECURSIVE TrimRight(_)
TrimRight(s) ==
    IF s # <<>> /\ s[Len(s)] = " " THEN TrimRight(SubSeq(s, 1, Len(s) - 1)) ELSE s

Trim(s) == TrimRight(TrimLeft(s))

\* A removal that refuses a count running past the end of the array.
Splice_RefusesOverrun(arr, start, count) ==
    IF start + count > Len(arr)
    THEN arr
    ELSE SubSeq(arr, 1, start) \o SubSeq(arr, start + count + 1, Len(arr))

\* Array.prototype.splice(start, count) on a copy: the array without the
\* (at most count) entries from 0-based position start on.
Splice(arr, start, count) ==
    SubSeq(arr, 1, start) \o SubSeq(arr, start + count + 1, Len(arr))

\* Array.prototype.slice(0, -1): the array without its last entry.
SliceDropLast(arr) == SubSeq(arr, 1, Len(arr) - 1)

\* arr[index] with a 0-based index.
At(arr, index) == arr[index + 1]

\* ------------------------------------------------------------ chat service

\* chatService.createSession: returns the response, rethrows a failure.
createSession(outcome) ==
    [threw |-> ~outcome.ok, value |-> outcome.body]

\* chatService.sendMessage: returns the response, rethrows a failure.
sendMessage(outcome) ==
    [threw |-> ~outcome.ok, value |-> outcome.response]

\* A getChatHistory that rethrows a failure, as createSession does.
getChatHistory_Rethrows(outcome) ==
    [threw |-> ~outcome.ok,
     value |-> IF outcome.ok /\ outcome.hasHistory THEN outcome.history ELSE <<>>]

\* chatService.getChatHistory: response.history || [], and [] on a failure.
getChatHistory(outcome) ==
    [threw |-> FALSE,
     value |-> IF outcome.ok /\ outcome.hasHistory THEN outcome.history ELSE <<>>]

\* A deleteSession that rethrows a failure.
deleteSession_Rethrows(outcome) == [threw |-> ~outcome.ok, value |-> outcome.ok]

\* chatService.deleteSession: true, and false on a failure.
deleteSession(outcome) == [threw |-> FALSE, value |-> outcome.ok]

\* chatService.testConnection: true, and false on a failure.
testConnection(outcome) == [threw |-> FALSE, value |-> outcome.ok]

\* Transport outcomes of DELETE /chat/sessions/{id} and GET /chat/test.
PlainOutcomes == { [ok |-> TRUE], [ok |-> FALSE] }

\* The five operations of chatService.
ClientOps ==
    { "createSession", "sendMessage", "getChatHistory", "deleteSession",
      "testConnection" }

\* ------------------------------------------------------------------- state

VARIABLES
    sessionId,        \* useState('')
    messages,         \* useState([])
    inputMessage,     \* useState('')
    isLoading,        \* useState(false): the "sending" flag
    isInitializing,   \* useState(true)
    boot,             \* where initializeChat stands
    session,          \* initializeChat's const session
    fetch,            \* the transport outcome of initializeChat's history call
    inflight,         \* sendMessage calls awaiting their response
    calls,            \* remote calls issued so far, per operation
    toast,            \* the last notification surfaced
    ids,              \* history: a tag per entry of messages, telling entries apart
    nextId,           \* history: the next unused tag
    sent,             \* history: the accepted submit whose call is outstanding
    settled,          \* history: the sendMessage call that settled in the last step
    ev,               \* history: the handler or continuation that ran last
    arg,              \* history: the index the last step's handleDeleteMessage got
    outstandingCreates,  \* older component: createSession calls not yet settled
    pending,          \* chat client used on its own: the operations called
    returned          \* chat client used on its own: what the last call gave

vars == << sessionId, messages, inputMessage, isLoading, isInitializing, boot,
           session, fetch, inflight, calls, toast, ids, nextId, sent, settled, ev,
           arg, outstandingCreates, pending, returned >>

\* Everything a component owns.
panelVars == << sessionId, messages, inputMessage, isLoading, isInitializing,
                boot, session, fetch, inflight, calls, toast, ids, nextId, sent,
                settled, ev, arg, outstandingCreates >>

NoArg == -1
NoReturn == [op |-> "none", ok |-> TRUE, threw |-> FALSE, value |-> FALSE]

NoSent == [before |-> <<>>, turn |-> 0, message |-> <<>>, deleted |-> FALSE]
NoSettled == [turn |-> 0, message |-> <<>>, ok |-> FALSE, response |-> <<>>,
              before |-> <<>>, deleted |-> FALSE, removed |-> 0]

Init ==
    /\ sessionId = ""
    /\ messages = <<>>
    /\ inputMessage = <<>>
    /\ isLoading = FALSE
    /\ isInitializing = TRUE
    /\ boot = "mount"
    /\ session = NoSession
    /\ fetch = NoFetch
    /\ inflight = <<>>
    /\ calls = [createSession |-> 0, getChatHistory |-> 0, sendMessage |-> 0]
    /\ toast = ToastNone
    /\ ids = <<>>
    /\ nextId = 1
    /\ sent = NoSent
    /\ settled = NoSettled
    /\ ev = "init"
    /\ arg = NoArg
    /\ outstandingCreates = 0
    /\ pending = {}
    /\ returned = NoReturn

\* Tags n, n+1, ..., one per entry of a list of length len.
FreshIds(n, len) == [i \in 1..len |-> n + i - 1]

\* --------------------------------------------------------------- bootstrap

\* A welcome entry given the wrong role.
WelcomeList_AsUser(s) == << Msg("user", s.welcome_message) >>

\* setMessages([{role: 'assistant', content: session.welcome_message}])
WelcomeList(s) == << Msg("assistant", s.welcome_message) >>

\* A resumed session that shows the welcome entry before the history.
ResumedList_WelcomeFirst(fetched, s) == WelcomeList(s) \o fetched

\* The list of a resumed ("existing") session: the fetched history, or the
\* welcome entry when there is none.
ResumedList(fetched, s) ==
    IF Len(fetched) > 0 THEN fetched ELSE WelcomeList(s)

\* The end of initializeChat on its try path: the list is set, a success
\* toast may be shown, and finally releases the initializing flag.
BootFinish(list, note) ==
    /\ messages' = list
    /\ ids' = FreshIds(nextId, Len(list))
    /\ nextId' = nextId + Len(list)
    /\ toast' = note
    /\ isInitializing' = FALSE
    /\ boot' = "ok"
    /\ ev' = "bootstrapped"

\* A catch with no finally after it: the initializing flag is kept.
BootCatch_NoFinally ==
    /\ toast' = ToastLoadFailed
    /\ isInitializing' = isInitializing
    /\ boot' = "failed"
    /\ ev' = "bootFailed"
    /\ UNCHANGED << messages, ids, nextId >>

\* catch: toast.error; finally: setIsInitializing(false).
BootCatch ==
    /\ toast' = ToastLoadFailed
    /\ isInitializing' = FALSE
    /\ boot' = "failed"
    /\ ev' = "bootFailed"
    /\ UNCHANGED << messages, ids, nextId >>

\* The mount effect: initializeChat runs up to its await of createSession.
Mount ==
    /\ boot = "mount"
    /\ isInitializing' = TRUE
    /\ calls' = [calls EXCEPT !.createSession = @ + 1]
    /\ boot' = "createSession"
    /\ ev' = "mount"
    /\ UNCHANGED << sessionId, messages, inputMessage, isLoading, session,
                    fetch, inflight, toast, ids, nextId, sent, settled, arg >>

\* createSession settles; initializeChat runs on to the history await or to
\* its end.
CreateSessionSettles(outcome) ==
    /\ boot = "createSession"
    /\ LET res == createSession(outcome) IN
        IF res.threw
        THEN /\ BootCatch
             /\ UNCHANGED << sessionId, session, calls >>
        ELSE /\ session' = res.value
             /\ sessionId' = res.value.session_id
             /\ IF res.value.status = "existing"
                THEN /\ calls' = [calls EXCEPT !.getChatHistory = @ + 1]
                     /\ boot' = "getChatHistory"
                     /\ ev' = "historyRequested"
                     /\ UNCHANGED << messages, ids, nextId, toast, isInitializing >>
                ELSE /\ BootFinish(WelcomeList(res.value), ToastSessionCreated)
                     /\ UNCHANGED calls
    /\ UNCHANGED << inputMessage, isLoading, fetch, inflight, sent, settled, arg >>

\* getChatHistory settles; initializeChat runs to its end.
GetChatHistorySettles(outcome) ==
    /\ boot = "getChatHistory"
    /\ fetch' = [ok |-> outcome.ok, hasHistory |-> outcome.hasHistory,
                 history |-> outcome.history, issued |-> TRUE]
    /\ LET res == getChatHistory(outcome) IN
        IF res.threw
        THEN BootCatch
        ELSE BootFinish(ResumedList(res.value, session),
                        IF Len(res.value) > 0 THEN ToastHistoryLoaded ELSE toast)
    /\ UNCHANGED << sessionId, inputMessage, isLoading, session, inflight,
                    calls, sent, settled, arg >>

\* -------------------------------------------------------------------- send

\* The main view (input, send button, message list with its delete buttons)
\* is rendered only once isInitializing is false; until then the component
\* returns the "initializing" card and no handler can be reached.  The
\* disabled attributes of the input and the button are not guards of the
\* model: the handlers' own guards are what is studied.
\* A view whose input and buttons are there during the bootstrap too.
Rendered_Always == TRUE

Rendered == ~isInitializing

\* A guard that forgets the sending flag.
SendGuard_NoSendingCheck == Trim(inputMessage) # <<>> /\ sessionId # ""

\* A guard that forgets the session id.
SendGuard_NoSessionCheck == Trim(inputMessage) # <<>> /\ ~isLoading

\* A guard that tests the input without trimming it.
SendGuard_NoTrim == inputMessage # <<>> /\ sessionId # "" /\ ~isLoading

\* if (!inputMessage.trim() || !sessionId || isLoading) return
SendGuard == Trim(inputMessage) # <<>> /\ sessionId # "" /\ ~isLoading

\* A submit that forgets setIsLoading(true).
SubmitAccepted_NoLoadingFlag ==
    /\ messages' = Append(messages, Msg("user", inputMessage))
    /\ inputMessage' = <<>>
    /\ isLoading' = isLoading
    /\ inflight' = Append(inflight, [session_id |-> sessionId,
                                      message |-> inputMessage,
                                      turn |-> nextId])
    /\ calls' = [calls EXCEPT !.sendMessage = @ + 1]
    /\ ids' = Append(ids, nextId)
    /\ nextId' = nextId + 1
    /\ sent' = [before |-> messages, turn |-> nextId,
                message |-> inputMessage, deleted |-> FALSE]
    /\ ev' = "submitAccepted"
    /\ settled' = NoSettled
    /\ arg' = NoArg
    /\ UNCHANGED << sessionId, isInitializing, boot, session, fetch, toast >>

\* A submit that sends the trimmed text while it shows the typed one.
SubmitAccepted_SendsTrimmed ==
    /\ messages' = Append(messages, Msg("user", inputMessage))
    /\ inputMessage' = <<>>
    /\ isLoading' = TRUE
    /\ inflight' = Append(inflight, [session_id |-> sessionId,
                                      message |-> Trim(inputMessage),
                                      turn |-> nextId])
    /\ calls' = [calls EXCEPT !.sendMessage = @ + 1]
    /\ ids' = Append(ids, nextId)
    /\ nextId' = nextId + 1
    /\ sent' = [before |-> messages, turn |-> nextId,
                message |-> inputMessage, deleted |-> FALSE]
    /\ ev' = "submitAccepted"
    /\ settled' = NoSettled
    /\ arg' = NoArg
    /\ UNCHANGED << sessionId, isInitializing, boot, session, fetch, toast >>

\* handleSendMessage up to its await: the optimistic append, the input
\* cleared, the sending flag set, the sendMessage call issued with the
\* values of this render.
SubmitAccepted ==
    /\ messages' = Append(messages, Msg("user", inputMessage))
    /\ inputMessage' = <<>>
    /\ isLoading' = TRUE
    /\ inflight' = Append(inflight, [session_id |-> sessionId,
                                      message |-> inputMessage,
                                      turn |-> nextId])
    /\ calls' = [calls EXCEPT !.sendMessage = @ + 1]
    /\ ids' = Append(ids, nextId)
    /\ nextId' = nextId + 1
    /\ sent' = [before |-> messages, turn |-> nextId,
                message |-> inputMessage, deleted |-> FALSE]
    /\ ev' = "submitAccepted"
    /\ settled' = NoSettled
    /\ arg' = NoArg
    /\ UNCHANGED << sessionId, isInitializing, boot, session, fetch, toast >>

\* The early return of handleSendMessage.
SubmitRejected ==
    /\ ev' = "submitRejected"
    /\ UNCHANGED << sessionId, messages, inputMessage, isLoading, isInitializing,
                    boot, session, fetch, inflight, calls, toast, ids, nextId,
                    sent >>
    /\ settled' = NoSettled
    /\ arg' = NoArg

handleSendMessage ==
    /\ Rendered
    /\ SendGuard => calls.sendMessage < MaxSends
    /\ IF SendGuard THEN SubmitAccepted ELSE SubmitRejected

\* handleKeyPress: Enter without Shift submits, any other key does nothing.
handleKeyPress(key, shiftKey) ==
    IF key = "Enter" /\ ~shiftKey
    THEN handleSendMessage
    ELSE /\ Rendered
         /\ ev' = "keyIgnored"
         /\ settled' = NoSettled
         /\ arg' = NoArg
         /\ UNCHANGED << sessionId, messages, inputMessage, isLoading,
                         isInitializing, boot, session, fetch, inflight, calls,
                         toast, ids, nextId, sent >>

\* The input's onChange: setInputMessage(e.target.value).
onChange(text) ==
    /\ Rendered
    /\ inputMessage' = text
    /\ ev' = "typed"
    /\ settled' = NoSettled
    /\ arg' = NoArg
    /\ UNCHANGED << sessionId, messages, isLoading, isInitializing, boot,
                    session, fetch, inflight, calls, toast, ids, nextId, sent >>

\* A reply appended under the user's role.
SendThen_AsUser(list, response) == Append(list, Msg("user", response))

\* try: setMessages(prev => [...prev, assistantMessage])
SendThen(list, response) == Append(list, Msg("assistant", response))

\* A catch that leaves the optimistic turn in the list.
SendCatch_NoRollback(list) == list

\* catch: setMessages(prev => prev.slice(0, -1))
SendCatch(list) == SliceDropLast(list)

\* The i-th outstanding sendMessage call settles and handleSendMessage runs
\* to its end: the reply appended, or the failure toast and the rollback;
\* finally the sending flag is released.
SendMessageSettles(i, outcome) ==
    /\ i \in 1..Len(inflight)
    /\ LET req == inflight[i]
           res == sendMessage(outcome)
       IN  /\ inflight' = Splice(inflight, i - 1, 1)
           /\ IF res.threw
              THEN /\ toast' = ToastSendFailed
                   /\ messages' = SendCatch(messages)
                   /\ ids' = SliceDropLast(ids)
                   /\ nextId' = nextId
                   /\ ev' = "sendFailed"
              ELSE /\ messages' = SendThen(messages, res.value)
                   /\ ids' = Append(ids, nextId)
                   /\ nextId' = nextId + 1
                   /\ toast' = toast
                   /\ ev' = "sendOk"
           /\ settled' = [turn |-> req.turn, message |-> req.message,
                          ok |-> ~res.threw, response |-> res.value,
                          before |-> sent.before, deleted |-> sent.deleted,
                          removed |-> IF res.threw /\ ids # <<>>
                                      THEN ids[Len(ids)] ELSE 0]
    /\ sent' = IF Len(inflight) = 1 THEN NoSent ELSE sent
    /\ arg' = NoArg
    /\ isLoading' = FALSE
    /\ UNCHANGED << sessionId, inputMessage, isInitializing, boot, session,
                    fetch, calls >>

\* ------------------------------------------------------------------ delete

\* A delete that always removes one entry.
DeleteCount_AlwaysOne(list, index) == 1

\* How many entries handleDeleteMessage splices out at index: a user turn
\* goes with the entry after it, an assistant turn goes alone.
DeleteCount(list, index) == IF At(list, index).role = "user" THEN 2 ELSE 1

\* A delete that refuses nothing.
DeleteRefused_Never(index) == FALSE

\* if (index === 0): the welcome message is not deleted.
DeleteRefused(index) == index = 0

\* A delete that also releases the sending flag.
handleDeleteMessage_ReleasesSending(index) ==
    /\ Rendered
    /\ index \in 0..(Len(messages) - 1)
    /\ arg' = index
    /\ IF DeleteRefused(index)
       THEN /\ toast' = ToastCannotDeleteWelcome
            /\ ev' = "deleteRejected"
            /\ UNCHANGED << messages, ids, sent >>
       ELSE /\ messages' = Splice(messages, index, DeleteCount(messages, index))
            /\ ids' = Splice(ids, index, DeleteCount(messages, index))
            /\ toast' = ToastDeleted
            /\ sent' = [sent EXCEPT !.deleted = @ \/ inflight # <<>>]
            /\ ev' = "deleted"
    /\ settled' = NoSettled
    /\ isLoading' = FALSE
    /\ UNCHANGED << sessionId, inputMessage, isInitializing, boot,
                    session, fetch, inflight, calls, nextId >>

\* handleDeleteMessage(index), for an index of the rendered list.
handleDeleteMessage(index) ==
    /\ Rendered
    /\ index \in 0..(Len(messages) - 1)
    /\ arg' = index
    /\ IF DeleteRefused(index)
       THEN /\ toast' = ToastCannotDeleteWelcome
            /\ ev' = "deleteRejected"
            /\ UNCHANGED << messages, ids, sent >>
       ELSE /\ messages' = Splice(messages, index, DeleteCount(messages, index))
            /\ ids' = Splice(ids, index, DeleteCount(messages, index))
            /\ toast' = ToastDeleted
            /\ sent' = [sent EXCEPT !.deleted = @ \/ inflight # <<>>]
            /\ ev' = "deleted"
    /\ settled' = NoSettled
    /\ UNCHANGED << sessionId, inputMessage, isLoading, isInitializing, boot,
                    session, fetch, inflight, calls, nextId >>

\* ------------------------------------------------------------------- next

\* What a step of the newer component leaves alone.
Frame == UNCHANGED << outstandingCreates, pending, returned >>

Bootstrap ==
    /\ \/ Mount
       \/ \E o \in CreateOutcomes : CreateSessionSettles(o)
       \/ \E o \in HistoryOutcomes : GetChatHistorySettles(o)
    /\ Frame

User ==
    /\ \/ \E text \in Inputs : onChange(text)
       \/ handleSendMessage
       \/ \E key \in {"Enter", "a"}, shiftKey \in BOOLEAN : handleKeyPress(key, shiftKey)
       \/ \E index \in 0..(Len(messages) - 1) : handleDeleteMessage(index)
    /\ Frame

Remote ==
    /\ \E i \in 1..Len(inflight), o \in SendOutcomes : SendMessageSettles(i, o)
    /\ Frame

Next == Bootstrap \/ User \/ Remote

Spec == Init /\ [][Next]_vars

\* ----------------------------------------------------- the older component
\* components/Chat/ChatContainer.tsx: the same send path, no history and no
\* delete, and a bootstrap effect that depends on the four props, so that it
\* runs at mount and again after every change of one of them.

\* Sessions the backend returns to the older component (one per task and
\* model configuration; the status is not read).
LegacySessions ==
    { [session_id |-> id, welcome_message |-> <<"w">>, status |-> "new"] :
        id \in {"s1", "s2"} }

LegacyCreateOutcomes ==
    { [ok |-> TRUE, body |-> s] : s \in LegacySessions }
        \cup { [ok |-> FALSE, body |-> NoSession] }

\* The effect runs: initializeChat up to its await of createSession.
LegacyEffect(why) ==
    /\ isInitializing' = TRUE
    /\ calls' = [calls EXCEPT !.createSession = @ + 1]
    /\ outstandingCreates' = outstandingCreates + 1
    /\ boot' = "createSession"
    /\ ev' = why
    /\ UNCHANGED << sessionId, messages, inputMessage, isLoading, session,
                    fetch, inflight, toast, ids, nextId, sent, settled, arg >>

\* The first run of the effect, after the first render.
LegacyMount ==
    /\ boot = "mount"
    /\ LegacyEffect("mount")

\* The parent passes a new taskId, noteContent, providerId or modelName:
\* the component renders again and the effect runs again.
LegacyPropsChange ==
    /\ boot # "mount"
    /\ calls.createSession <= MaxPropChanges
    /\ LegacyEffect("propsChanged")

\* One outstanding createSession settles; that run of initializeChat ends.
LegacyCreateSessionSettles(outcome) ==
    /\ outstandingCreates > 0
    /\ outstandingCreates' = outstandingCreates - 1
    /\ LET res == createSession(outcome) IN
        IF res.threw
        THEN /\ BootCatch
             /\ UNCHANGED << sessionId, session >>
        ELSE /\ session' = res.value
             /\ sessionId' = res.value.session_id
             /\ BootFinish(WelcomeList(res.value), ToastSessionCreated)
    /\ UNCHANGED << inputMessage, isLoading, fetch, inflight, calls, sent,
                    settled, arg >>

LegacyBootstrap ==
    /\ \/ LegacyMount
       \/ LegacyPropsChange
       \/ \E o \in LegacyCreateOutcomes : LegacyCreateSessionSettles(o)
    /\ UNCHANGED << pending, returned >>

LegacyUser ==
    /\ \/ \E text \in Inputs : onChange(text)
       \/ handleSendMessage
       \/ \E key \in {"Enter", "a"}, shiftKey \in BOOLEAN : handleKeyPress(key, shiftKey)
    /\ Frame

LegacyNext == LegacyBootstrap \/ LegacyUser \/ Remote

LegacySpec == Init /\ [][LegacyNext]_vars

\* ------------------------------------------------ the chat client by itself
\* chatService used by any caller: an operation is called, its request
\* settles with a transport outcome, and the caller gets a value or a throw.

ClientOutcomes(op) ==
    CASE op = "createSession" -> CreateOutcomes
      [] op = "sendMessage" -> SendOutcomes
      [] op = "getChatHistory" -> HistoryOutcomes
      [] OTHER -> PlainOutcomes

ClientResult(op, outcome) ==
    CASE op = "createSession" -> createSession(outcome)
      [] op = "sendMessage" -> sendMessage(outcome)
      [] op = "getChatHistory" -> getChatHistory(outcome)
      [] op = "deleteSession" -> deleteSession(outcome)
      [] OTHER -> testConnection(outcome)

ClientCalls(op) ==
    /\ op \notin pending
    /\ pending' = pending \cup {op}
    /\ UNCHANGED returned

ClientSettles(op, outcome) ==
    /\ op \in pending
    /\ pending' = pending \ {op}
    /\ returned' = [op |-> op, ok |-> outcome.ok,
                    threw |-> ClientResult(op, outcome).threw,
                    value |-> ClientResult(op, outcome).value]

ClientNext ==
    /\ \/ \E op \in ClientOps : ClientCalls(op)
       \/ \E op \in ClientOps : \E o \in ClientOutcomes(op) : ClientSettles(op, o)
    /\ UNCHANGED panelVars

ClientSpec == Init /\ [][ClientNext]_vars

\* The mount effect runs, the bootstrap's remote calls settle and their
\* continuations run.
FairSpec == Spec /\ WF_vars(Bootstrap)

\* ------------------------------------------------------------------ claims

C2_RollbackRemovesOwnTurn ==
    ev = "sendFailed" => settled.removed = settled.turn

\* C3: after a successful bootstrap the list is never empty and its entry at
\* index 0 is the one bootstrap placed there (the first tag bootstrap gave).
C3_IndexZeroKept ==
    boot = "ok" => (messages # <<>> /\ ids[1] = 1)

\* C4: at most one sendMessage call is outstanding, and a submit made while
\* sending is true appends no entry and issues no remote call.
C4_OneOutstandingSend ==
    /\ [](Len(inflight) <= 1)
    /\ [][(isLoading /\ ev' \in {"submitAccepted", "submitRejected"})
            => (messages' = messages /\ calls' = calls /\ inflight' = inflight)]_vars

C4_Witness ==
    /\ ev = "submitRejected"
    /\ isLoading
    /\ Trim(inputMessage) # <<>>
    /\ sessionId # ""

\* C5: when a send succeeds, the list ends with the submitted user turn
\* followed by the assistant turn carrying the response, whatever deletes
\* were made while the send was outstanding.
C5_SuccessEndsWithPair ==
    ev = "sendOk" =>
        LET n == Len(messages) IN
            /\ n >= 2
            /\ messages[n] = Msg("assistant", settled.response)
            /\ messages[n - 1] = Msg("user", settled.message)
            /\ ids[n - 1] = settled.turn

\* The history fetch succeeded and brought no entry.
FetchedEmpty ==
    fetch.issued /\ fetch.ok /\ (fetch.hasHistory => fetch.history = <<>>)

\* The history fetch succeeded and brought entries.
FetchedSome ==
    fetch.issued /\ fetch.ok /\ fetch.hasHistory /\ fetch.history # <<>>

\* C6: a bootstrap of a "new" session, or of an "existing" one with an empty
\* history, ends with the single assistant welcome entry, the returned
\* session id and initializing false.
C6_WelcomeOnly ==
    (/\ ev = "bootstrapped"
     /\ \/ session.status = "new"
        \/ session.status = "existing" /\ FetchedEmpty)
    => /\ messages = << [role |-> "assistant", content |-> session.welcome_message] >>
       /\ sessionId = session.session_id
       /\ sessionId # ""
       /\ ~isInitializing

C6_Witness ==
    ev = "bootstrapped" /\ session.status = "existing" /\ FetchedEmpty

\* C7: a bootstrap of an "existing" session with a non-empty history ends
\* with the list equal to the fetched history, in order, and nothing else.
C7_HistoryVerbatim ==
    (ev = "bootstrapped" /\ session.status = "existing" /\ FetchedSome)
    => messages = fetch.history

C7_Witness ==
    /\ ev = "bootstrapped"
    /\ session.status = "existing"
    /\ FetchedSome
    /\ Len(fetch.history) >= 2
    /\ fetch.history[1].role = "user"

\* C8: after a failed bootstrap the list is empty, no session id is set, the
\* failure notification is the one shown, the panel is Ready, and no submit
\* ever appends an entry or issues a remote call.
C8_FailedBootstrapIsInert ==
    boot = "failed" =>
        /\ messages = <<>>
        /\ sessionId = ""
        /\ toast = ToastLoadFailed
        /\ ~isInitializing
        /\ calls.sendMessage = 0
        /\ inflight = <<>>

C8_Witness ==
    boot = "failed" /\ ev = "submitRejected" /\ Trim(inputMessage) # <<>>

\* The bootstrap has just ended and its history call failed in transport.
HistoryFetchFailed ==
    ev \in {"bootstrapped", "bootFailed"} /\ fetch.issued /\ ~fetch.ok

\* C9, as claimed: a transport failure of the history fetch takes the
\* bootstrap's failure path, with the failure notification and an empty list.
C9_HistoryFailurePropagates ==
    HistoryFetchFailed => (toast = ToastLoadFailed /\ messages = <<>>)

\* C9, amended: a transport failure of the history fetch is caught inside
\* getChatHistory and read as an empty history; the bootstrap succeeds with
\* the single welcome entry and surfaces no failure notification.
C9_HistoryFailureDegrades ==
    HistoryFetchFailed =>
        /\ boot = "ok"
        /\ messages = << [role |-> "assistant", content |-> session.welcome_message] >>
        /\ toast # ToastLoadFailed
        /\ ~isInitializing

C9_Witness ==
    HistoryFetchFailed /\ session.status = "existing" /\ sessionId = "s1"

\* C10: once the bootstrap's calls settle, initializing becomes false,
\* whether the bootstrap succeeded or failed, and it is never true again.
C10_ReadyAlwaysFires ==
    /\ <>[](~isInitializing)
    /\ [][~isInitializing => ~isInitializing']_vars

C10_Witness ==
    boot = "failed" /\ ~isInitializing /\ calls.createSession = 1

\* C11: handleDeleteMessage(0) shows the rejection notice and changes
\* neither the list nor the session id, the input or the sending flag,
\* whatever the list holds.
C11_IndexZeroRejected ==
    [][arg' = 0 =>
        /\ toast' = ToastCannotDeleteWelcome
        /\ messages' = messages
        /\ ids' = ids
        /\ sessionId' = sessionId
        /\ inputMessage' = inputMessage
        /\ isLoading' = isLoading
        /\ inflight' = inflight]_vars

C11_Witness ==
    /\ arg = 0
    /\ ev = "deleteRejected"
    /\ Len(messages) >= 3
    /\ messages[1].role = "user"
    /\ isLoading

\* The 0-based positions handleDeleteMessage(i) is to remove from list: i
\* and, for a user turn, the position after it.
Gone(list, i) == IF list[i + 1].role = "user" THEN {i, i + 1} ELSE {i}

\* after is before without the entries at the positions in gone, the other
\* entries in their order.
IsWithout(after, before, gone) ==
    LET kept == { k \in 0..(Len(before) - 1) : k \notin gone } IN
        /\ Len(after) = Cardinality(kept)
        /\ \A k \in kept :
              after[k + 1 - Cardinality({ g \in gone : g < k })] = before[k + 1]

\* C12: handleDeleteMessage(i) with i >= 1 yields the list without entries i
\* and i+1 when entry i is a user turn, and without entry i alone when it is
\* an assistant turn, the rest in their order.
C12_DeleteRemovesTurn ==
    [][arg' >= 1 =>
        /\ IsWithout(messages', messages, Gone(messages, arg'))
        /\ IsWithout(ids', ids, Gone(messages, arg'))]_vars

C12_Witness ==
    ev = "deleted" /\ arg = 1 /\ ids = << 1, 4, 5 >>

\* C13: on a transport failure createSession and sendMessage throw to their
\* caller, while getChatHistory returns an empty sequence and deleteSession
\* and testConnection return false; these three never throw.
C13_AsymmetricFailures ==
    /\ returned.op \in {"createSession", "sendMessage"}
         => (returned.threw <=> ~returned.ok)
    /\ returned.op \in {"getChatHistory", "deleteSession", "testConnection"}
         => ~returned.threw
    /\ (returned.op = "getChatHistory" /\ ~returned.ok)
         => returned.value = <<>>
    /\ (returned.op \in {"deleteSession", "testConnection"} /\ ~returned.ok)
         => returned.value = FALSE

C13_Witness ==
    returned.op = "deleteSession" /\ ~returned.ok /\ "createSession" \in pending

\* C14: createSession is called at most once per mounted panel, and a
\* session id once set never changes, prop changes included.
C14_SessionCreatedOnce ==
    [][/\ calls'.createSession <= 1
       /\ sessionId # "" => sessionId' = sessionId]_vars

\* The step is a call of handleSendMessage, by the button or by Enter.
SubmitStep == ev' \in {"submitAccepted", "submitRejected"}

\* C15: a submit with an empty or whitespace-only input, or with no session
\* id, leaves the list, the input and the sending flag as they were and
\* issues no remote call.
C15_GuardedSubmit ==
    [][(SubmitStep /\ (Trim(inputMessage) = <<>> \/ sessionId = ""))
        => /\ messages' = messages
           /\ inputMessage' = inputMessage
           /\ isLoading' = isLoading
           /\ calls' = calls
           /\ inflight' = inflight]_vars

C15_Witness ==
    /\ ev = "submitRejected"
    /\ inputMessage = << " " >>
    /\ sessionId # ""
    /\ ~isLoading

\* C16: sending is true exactly while one sendMessage call is outstanding:
\* set by an accepted submit, released when the call settles either way, and
\* kept, with no second call, for as long as the call stays outstanding.
C16_SendingWhileOutstanding ==
    /\ isLoading <=> Len(inflight) = 1
    /\ Len(inflight) <= 1
    /\ ev = "submitAccepted" => isLoading
    /\ ev \in {"sendOk", "sendFailed"} => ~isLoading

C16_Witness ==
    ev = "sendFailed" /\ ~isLoading /\ inflight = <<>> /\ calls.sendMessage = 2

\* The tags of a list of tags.
Tags(list) == { list[k] : k \in 1..Len(list) }

\* Sends go one at a time, so the reply to the user turn tagged t is the
\* assistant entry tagged t + 1: no other entry is created in between.
IsReplyTo(k, j) == messages[k].role = "assistant" /\ ids[k] = ids[j] + 1

\* C17: handleDeleteMessage on a user turn removes that turn and the
\* assistant reply to it, and no other entry: no other user message and no
\* reply to a different user message.
C17_DeleteRemovesOwnReplyOnly ==
    [][(arg' >= 1 /\ messages[arg' + 1].role = "user") =>
        \A k \in 1..Len(ids) :
            (ids[k] \notin Tags(ids') /\ k # arg' + 1) => IsReplyTo(k, arg' + 1)]_vars

\* C18: handleDeleteMessage issues no remote call and leaves the session
\* id, the input, the sending flag and the outstanding send as they were.
C18_DeleteIsLocal ==
    [][arg' >= 0 =>
        /\ calls' = calls
        /\ inflight' = inflight
        /\ sessionId' = sessionId
        /\ inputMessage' = inputMessage
        /\ isLoading' = isLoading]_vars

C18_Witness ==
    /\ ev = "deleted"
    /\ isLoading
    /\ inflight # <<>>
    /\ inputMessage # <<>>

\* C19: sendMessage calls are issued only after the bootstrap has ended
\* with a session id, never while initializing is true, and each carries
\* the session id the bootstrap set.
C19_BootstrapBeforeSend ==
    /\ calls.sendMessage > 0 => (boot = "ok" /\ ~isInitializing /\ sessionId # "")
    /\ \A i \in 1..Len(inflight) :
          /\ inflight[i].session_id = session.session_id
          /\ inflight[i].session_id # ""

C19_Witness ==
    ev = "submitAccepted" /\ inflight # <<>> /\ session.status = "existing"

\* C20: an accepted submit passes to sendMessage the input as typed, the
\* very content of the user turn it appends, and leaves the input empty.
C20_SentTextIsShownText ==
    [][ev' = "submitAccepted" =>
        LET req == inflight'[Len(inflight')]
            turn == messages'[Len(messages')]
        IN  /\ req.message = inputMessage
            /\ turn = [role |-> "user", content |-> inputMessage]
            /\ req.message = turn.content
            /\ Len(messages') = Len(messages) + 1
            /\ inputMessage' = <<>>]_vars

C20_Witness ==
    /\ ev = "submitAccepted"
    /\ inflight[1].message = << " ", "a", " " >>
    /\ inputMessage = <<>>

\* The welcome entry of the session followed by strictly alternating user
\* and assistant turns.
WelcomeThenTurns(list) ==
    /\ Len(list) >= 1
    /\ list[1] = Msg("assistant", session.welcome_message)
    /\ \A k \in 2..Len(list) :
          list[k].role = IF k % 2 = 0 THEN "user" ELSE "assistant"

\* Idle: such a list, of odd length.  Sending: such a list plus one
\* trailing user turn, hence of even length and ending with a user turn.
TurnShape ==
    /\ WelcomeThenTurns(messages)
    /\ IF isLoading
       THEN Len(messages) % 2 = 0 /\ messages[Len(messages)].role = "user"
       ELSE Len(messages) % 2 = 1

\* C21: in a "new" session the bootstrap's last step establishes the shape
\* (welcome, then user/assistant pairs; one more user turn while sending)
\* and every step that is not a handleDeleteMessage call keeps it, so the
\* shape holds for as long as no delete has been performed.
C21_AlternatingUntilDelete ==
    [][(/\ boot' = "ok"
        /\ session'.status = "new"
        /\ arg' = NoArg
        /\ boot = "ok" => TurnShape) => TurnShape']_vars

\* Two answered sends: every tag ever issued is still
\* in the list, so nothing has been deleted or rolled back.
C21_Witness ==
    /\ ev = "sendOk"
    /\ session.status = "new"
    /\ ~isLoading
    /\ ids = << 1, 2, 3, 4, 5 >>
    /\ nextId = 6
    /\ TurnShape

\* C22: handleDeleteMessage on a user turn that is the last entry removes
\* exactly that entry: the list is its former self without the last entry.
C22_LastUserTurnAlone ==
    [][(/\ arg' >= 1
        /\ arg' = Len(messages) - 1
        /\ messages[arg' + 1].role = "user") =>
            /\ Len(messages') = Len(messages) - 1
            /\ messages' = SubSeq(messages, 1, Len(messages) - 1)
            /\ ids' = SubSeq(ids, 1, Len(ids) - 1)]_vars

\* The second user turn, its send outstanding, deleted from
\* [welcome, user, assistant, user]: tag 4 is gone, tags 1..3 remain.
C22_Witness ==
    /\ ev = "deleted"
    /\ arg = Len(messages)
    /\ arg = 3
    /\ isLoading
    /\ inflight # <<>>
    /\ ids = << 1, 2, 3 >>
    /\ nextId = 5

====
